---- MODULE Spec2Model ----
(***************************************************************************)
(* A model of the tag-driven configuration engine of handletec/autoconfig: *)
(* Config.ReadEnv (Bind), Config.getOrBuildFieldMeta (the metadata cache), *)
(* Config.Check (Validate) and setFieldDefault.                            *)
(*                                                                         *)
(* Go strings are modelled as sequences of one-character strings, so that  *)
(* splitting, trimming, case folding and numeric parsing are computed the  *)
(* way the code computes them.                                             *)
(***************************************************************************)
EXTENDS Integers, Sequences, FiniteSets, TLC

\* ------------------------------------------------------------------------
\* Bounds of the model
\* ------------------------------------------------------------------------

\* Number of concurrent callers of getOrBuildFieldMeta in SpecCache.
NumCallers == 2

\* Number of getOrBuildFieldMeta calls each caller makes in SpecCache.
MaxCalls == 2

\* Number of comma-separated tokens in the rules tags of SpecTags.
MaxTokens == 2

\* ------------------------------------------------------------------------
\* Strings (package strings, strconv)
\* ------------------------------------------------------------------------

UpperChars == <<"A","B","C","D","E","F","G","H","I","J","K","L","M",
                "N","O","P","Q","R","S","T","U","V","W","X","Y","Z">>

LowerChars == <<"a","b","c","d","e","f","g","h","i","j","k","l","m",
                "n","o","p","q","r","s","t","u","v","w","x","y","z">>

DigitChars == <<"0","1","2","3","4","5","6","7","8","9">>

\* unicode.ToLower on one ASCII character.
ToLowerCh(ch) ==
    IF \E i \in 1..26 : UpperChars[i] = ch
    THEN LowerChars[CHOOSE i \in 1..26 : UpperChars[i] = ch]
    ELSE ch

\* strings.EqualFold on ASCII strings.
EqualFold(a, b) ==
    /\ Len(a) = Len(b)
    /\ \A i \in 1..Len(a) : ToLowerCh(a[i]) = ToLowerCh(b[i])

\* strings.HasPrefix.
HasPrefix(s, p) ==
    /\ Len(s) >= Len(p)
    /\ SubSeq(s, 1, Len(p)) = p

IsSpace(ch) == ch \in {" ", "\t", "\n", "\r"}

RECURSIVE TrimLeft(_)
TrimLeft(s) ==
    IF Len(s) > 0 /\ IsSpace(s[1]) THEN TrimLeft(Tail(s)) ELSE s

RECURSIVE TrimRight(_)
TrimRight(s) ==
    IF Len(s) > 0 /\ IsSpace(s[Len(s)])
    THEN TrimRight(SubSeq(s, 1, Len(s) - 1))
    ELSE s

\* strings.TrimSpace.
TrimSpace(s) == TrimRight(TrimLeft(s))

\* Index of the first occurrence of the character sep in s, 0 when absent.
IndexCh(s, sep) ==
    LET First(hits) ==
            IF hits = {} THEN 0
            ELSE CHOOSE i \in hits : \A j \in hits : i <= j
    IN  First({ i \in 1..Len(s) : s[i] = sep })

\* strings.Split(s, sep) for a one-character separator: always at least one
\* part, the empty string included.
RECURSIVE Split(_, _)
Split(s, sep) ==
    LET At(i) ==
            IF i = 0 THEN <<s>>
            ELSE <<SubSeq(s, 1, i - 1)>> \o Split(SubSeq(s, i + 1, Len(s)), sep)
    IN  At(IndexCh(s, sep))

\* strings.SplitN(s, sep, 2): at most two parts, split at the first sep.
SplitN2(s, sep) ==
    LET At(i) ==
            IF i = 0 THEN <<s>>
            ELSE <<SubSeq(s, 1, i - 1), SubSeq(s, i + 1, Len(s))>>
    IN  At(IndexCh(s, sep))

DigitVal(ch) ==
    IF \E i \in 1..10 : DigitChars[i] = ch
    THEN (CHOOSE i \in 1..10 : DigitChars[i] = ch) - 1
    ELSE -1

RECURSIVE Pow2(_)
Pow2(n) == IF n = 0 THEN 1 ELSE 2 * Pow2(n - 1)

\* The literals of the model (LitPool, EnvPool) hold at most four digits, so
\* none exceeds the 64-bit range: Narrow(bitSize) tells the widths whose
\* range check can fire, and only their limits are computed.
Narrow(bitSize) == bitSize # 64

RECURSIVE DigitsValue(_, _, _)
DigitsValue(s, base, acc) ==
    IF Len(s) = 0 THEN acc
    ELSE DigitsValue(Tail(s), base, acc * base + DigitVal(s[1]))

\* strconv.ParseUint(s, base, bitSize) for base 10, and for base 0 over the
\* characters of the model (a leading "0" followed by more digits is octal).
\* Result: [ok, v, err] with err one of "", "syntax", "range".
ParseUint(s, base, bitSize) ==
    LET octal == base = 0 /\ Len(s) > 1 /\ s[1] = "0"
        Digits(b, body) ==
            LET v == DigitsValue(body, b, 0)
            IN  IF \E i \in 1..Len(body) :
                        DigitVal(body[i]) < 0 \/ DigitVal(body[i]) >= b
                THEN [ok |-> FALSE, v |-> 0, err |-> "syntax"]
                ELSE IF Narrow(bitSize) /\ v > Pow2(bitSize) - 1
                THEN [ok |-> FALSE, v |-> Pow2(bitSize) - 1, err |-> "range"]
                ELSE [ok |-> TRUE, v |-> v, err |-> ""]
    IN  IF Len(s) = 0 THEN [ok |-> FALSE, v |-> 0, err |-> "syntax"]
        ELSE Digits(IF base = 0 THEN (IF octal THEN 8 ELSE 10) ELSE base,
                    IF octal THEN Tail(s) ELSE s)

\* strconv.ParseInt(s, base, bitSize): an optional sign, then ParseUint, then
\* the range check for the signed width.
ParseInt(s, base, bitSize) ==
    LET neg == Len(s) > 0 /\ s[1] = "-"
        cut == IF Narrow(bitSize) THEN Pow2(bitSize - 1) ELSE 0
        Signed(u) ==
            IF ~u.ok THEN [ok |-> FALSE, v |-> 0, err |-> u.err]
            ELSE IF Narrow(bitSize) /\ ~neg /\ u.v >= cut
            THEN [ok |-> FALSE, v |-> cut - 1, err |-> "range"]
            ELSE IF Narrow(bitSize) /\ neg /\ u.v > cut
            THEN [ok |-> FALSE, v |-> 0 - cut, err |-> "range"]
            ELSE [ok |-> TRUE, v |-> IF neg THEN 0 - u.v ELSE u.v, err |-> ""]
    IN  IF Len(s) = 0 THEN [ok |-> FALSE, v |-> 0, err |-> "syntax"]
        ELSE Signed(ParseUint(IF s[1] \in {"+", "-"} THEN Tail(s) ELSE s,
                              base, 64))

sTrue  == <<"t","r","u","e">>
sFalse == <<"f","a","l","s","e">>

\* strconv.ParseBool: exactly the literals 1 t T TRUE true True and
\* 0 f F FALSE false False.
ParseBool(s) ==
    IF s \in {<<"1">>, <<"t">>, <<"T">>, <<"T","R","U","E">>, sTrue,
              <<"T","r","u","e">>}
    THEN [ok |-> TRUE, v |-> TRUE]
    ELSE IF s \in {<<"0">>, <<"f">>, <<"F">>, <<"F","A","L","S","E">>, sFalse,
                   <<"F","a","l","s","e">>}
    THEN [ok |-> TRUE, v |-> FALSE]
    ELSE [ok |-> FALSE, v |-> FALSE]

\* Normal form of a decimal num / 10^scale: no trailing zero in the fraction.
RECURSIVE NormDec(_, _)
NormDec(num, scale) ==
    IF num = 0 THEN [num |-> 0, scale |-> 0]
    ELSE IF scale > 0 /\ num % 10 = 0 THEN NormDec(num \div 10, scale - 1)
    ELSE [num |-> num, scale |-> scale]

\* strconv.ParseFloat(s, 64) over the characters of the model's literals
\* (sign, decimal digits, one decimal point): [ok, v], v a decimal in normal
\* form.  Exponents, hex floats, "inf" and "nan" are outside the literals of
\* the model, and so is "-0".
ParseFloat(s) ==
    LET neg == Len(s) > 0 /\ s[1] = "-"
        Value(digs, scale) ==
            LET Signed(mag) == NormDec(IF neg THEN 0 - mag ELSE mag, scale)
            IN  IF \/ Len(digs) = 0
                   \/ \E i \in 1..Len(digs) : DigitVal(digs[i]) < 0
                THEN [ok |-> FALSE, v |-> [num |-> 0, scale |-> 0]]
                ELSE [ok |-> TRUE, v |-> Signed(DigitsValue(digs, 10, 0))]
        AtDot(rest, dot) ==
            IF dot = 0 THEN Value(rest, 0)
            ELSE Value(SubSeq(rest, 1, dot - 1)
                           \o SubSeq(rest, dot + 1, Len(rest)),
                       Len(rest) - dot)
        Unsigned(rest) == AtDot(rest, IndexCh(rest, "."))
    IN  Unsigned(IF Len(s) > 0 /\ s[1] \in {"+", "-"} THEN Tail(s) ELSE s)

\* ------------------------------------------------------------------------
\* Tag and key literals
\* ------------------------------------------------------------------------

sStruct    == <<"s","t","r","u","c","t">>
sRequired  == <<"r","e","q","u","i","r","e","d">>
sDefaultEq == <<"d","e","f","a","u","l","t","=">>
sDash      == <<"-">>

\* Environment prefix given to New (src/all_test.go: EnvPrefix).
EnvPrefix == <<"A","U","T","O","C","O","N","F","I","G">>

kADDRESS  == <<"A","D","D","R","E","S","S">>
kPORT     == <<"P","O","R","T">>
kORIGIN   == <<"O","R","I","G","I","N">>
kENABLED  == <<"E","N","A","B","L","E","D">>
kFORMAT   == <<"L","O","G","G","E","R","_","F","O","R","M","A","T">>
kSERVERIP == <<"S","E","R","V","E","R","_","I","P">>
kUSERNAME == <<"U","S","E","R","N","A","M","E">>
kP        == <<"P">>
kZ        == <<"Z">>
kA        == <<"A">>
kB        == <<"B">>
kL        == <<"L">>
kM        == <<"M">>
kMID      == <<"M","I","D">>
kN        == <<"N">>

cDefaultAddress == sDefaultEq \o <<"1","2","7",".","0",".","0",".","1">>
cDefaultPort    == sDefaultEq \o <<"8","0","0","0">>
cDefaultKv      == sDefaultEq \o <<"k","v">>

v9000     == <<"9","0","0","0">>
vLoopback == <<":",":","1">>
vOrigins  == <<"l","o","c","a","l","h","o","s","t",","," ",":",":","1",",",
               " ","1","2","7",".","0",".","0",".","1">>

\* Default literals tried on the probe field.
LitPool == { <<>>, <<"0">>, <<"5">>, <<"3","0","0">>, <<"-","1">>, sTrue,
             sFalse, <<"x">>, <<"1",".","5">> }

\* Values the environment may hold for the probe field's key.
EnvPool == { <<"0">>, <<"5">>, <<"3","0","0">>, sTrue, sFalse, <<"x">> }

\* Rules tags tried on the probe field: none, the sentinel, required, a
\* default, and required together with a default.
CfgPool ==
    { [has |-> FALSE, tag |-> <<>>], [has |-> TRUE, tag |-> sDash],
      [has |-> TRUE, tag |-> sRequired],
      [has |-> TRUE, tag |-> sRequired \o <<",">> \o sDefaultEq \o <<"5">>] }
    \cup { [has |-> TRUE, tag |-> sDefaultEq \o l] : l \in LitPool }

\* Binding tags tried on the probe field: none, empty, the sentinel, a key.
MsPool ==
    { [has |-> FALSE, tag |-> <<>>], [has |-> TRUE, tag |-> <<>>],
      [has |-> TRUE, tag |-> sDash], [has |-> TRUE, tag |-> kP] }

\* Rules tags tried on the nested probe field.
NestCfgPool ==
    { [has |-> FALSE, tag |-> <<>>],
      [has |-> TRUE, tag |-> sStruct],
      [has |-> TRUE, tag |-> <<"S","t","r","u","c","t">>],
      [has |-> TRUE, tag |-> sStruct \o <<",">> \o sRequired],
      [has |-> TRUE, tag |-> sRequired \o <<","," ">> \o sStruct],
      [has |-> TRUE, tag |-> sRequired],
      [has |-> TRUE, tag |-> sStruct \o <<",">> \o sDefaultEq \o <<"x">>] }

ScalarKinds == {"bool", "int", "int8", "uint8", "float64", "string", "slice"}

\* ------------------------------------------------------------------------
\* State
\* ------------------------------------------------------------------------

VARIABLES
    target,   \* name of the structure type the caller passes (fixed by Init)
    probe,    \* kind and tags of the probe fields of that type (fixed by Init)
    env,      \* the process environment: key -> value, for the keys set
    obj,      \* the caller's structure instance
    c,        \* the engine: [envPrefix, msTag, structFields]
    bound,    \* keys registered with the external source (viper.BindEnv)
    last,     \* record of the last ReadEnv / Check invocation
    prev,     \* record of the invocation before it
    mu,       \* c.mu: [readers, writer]
    pc,       \* per caller of getOrBuildFieldMeta: its position
    rt,       \* per caller: the type it asks for
    list,     \* per caller: the list being built
    idx,      \* per caller: the loop variable i of the build
    ret,      \* per caller: [done, metas, via] of its current or last call
    calls,    \* per caller: number of calls started
    builds    \* per type: number of times its metadata was built and stored

vars == <<target, probe, env, obj, c, bound, last, prev,
          mu, pc, rt, list, idx, ret, calls, builds>>

engineVars == <<target, probe, env, obj, c, bound, last, prev>>

cacheVars  == <<mu, pc, rt, list, idx, ret, calls, builds>>

\* ------------------------------------------------------------------------
\* Structure types (reflect.Type)
\* ------------------------------------------------------------------------

NoTag == [has |-> FALSE, tag |-> <<>>]

Tag(t) == [has |-> TRUE, tag |-> t]

\* One reflect.StructField: name, exported (PkgPath = ""), kind, the struct
\* type of a struct-kind field, and the two tags (tagConfig, tagMapStructure).
Fld(name, exported, kind, elem, cfg, ms) ==
    [name |-> name, exported |-> exported, kind |-> kind, elem |-> elem,
     cfg |-> cfg, ms |-> ms]

\* AppConfig of the test.
AppConfigFields ==
    << Fld("Address", TRUE, "string", "", Tag(cDefaultAddress), Tag(kADDRESS)),
       Fld("Port",    TRUE, "int",    "", Tag(cDefaultPort),    Tag(kPORT)),
       Fld("Origin",  TRUE, "slice",  "", NoTag,                Tag(kORIGIN)),
       Fld("Enabled", TRUE, "bool",   "", NoTag,                Tag(kENABLED)) >>

\* AppConfig of the README, shortened: Logger, ServerIP, AdguardHome.
ReadmeConfigFields ==
    << Fld("Logger",      TRUE, "struct", "LoggerT",  Tag(sStruct),   NoTag),
       Fld("ServerIP",    TRUE, "string", "",         Tag(sRequired), Tag(kSERVERIP)),
       Fld("AdguardHome", TRUE, "struct", "AdguardT", Tag(sStruct),   NoTag) >>

LoggerFields ==
    << Fld("Format",  TRUE,  "string", "", Tag(cDefaultKv), Tag(kFORMAT)),
       Fld("handler", FALSE, "ptr",    "", NoTag,           NoTag) >>

AdguardFields ==
    << Fld("Address",  TRUE, "string", "", Tag(sRequired), Tag(kADDRESS)),
       Fld("Username", TRUE, "string", "", Tag(sRequired), Tag(kUSERNAME)) >>

\* Two levels of nesting, a required field at the bottom.
DeepFields ==
    << Fld("Mid", TRUE, "struct", "MidT", Tag(sStruct), Tag(kMID)),
       Fld("D",   TRUE, "int8",   "",     Tag(sDefaultEq \o <<"5">>), NoTag) >>

MidFields ==
    << Fld("Leaf", TRUE, "struct", "LeafT", Tag(<<"S","T","R","U","C","T">>), NoTag),
       Fld("M",    TRUE, "string", "",      Tag(sDefaultEq \o <<"m">>), Tag(kM)) >>

LeafFields ==
    << Fld("L", TRUE, "string", "", Tag(sRequired), Tag(kL)) >>

\* One field whose kind and tags Init chooses, followed by a defaulted one.
ProbeFields ==
    << Fld("F", probe.exported, probe.kind, "", probe.cfg, probe.ms),
       Fld("Z", TRUE, "string", "", Tag(sDefaultEq \o <<"z">>), Tag(kZ)) >>

\* One nested field whose kind and rules tag Init chooses, followed by a
\* defaulted one.
NestProbeFields ==
    << Fld("N", TRUE, probe.nestKind,
           IF probe.nestKind = "struct" THEN "InnerT" ELSE "", probe.nestCfg,
           NoTag),
       Fld("Y", TRUE, "string", "", Tag(sDefaultEq \o <<"y">>), Tag(kN)) >>

InnerFields ==
    << Fld("A",      TRUE,  "string", "", Tag(sDefaultEq \o <<"a">>), Tag(kA)),
       Fld("B",      TRUE,  "int8",   "", Tag(sRequired),             Tag(kB)),
       Fld("hidden", FALSE, "string", "", Tag(sRequired),             Tag(kZ)) >>

\* Three fields that can each violate: required with a default, required,
\* and a default that does not parse.
MultiFields ==
    << Fld("X", TRUE, "int8",   "", Tag(sRequired \o <<",">> \o sDefaultEq \o <<"5">>), Tag(kA)),
       Fld("V", TRUE, "string", "", Tag(sRequired), Tag(kB)),
       Fld("W", TRUE, "bool",   "", Tag(sDefaultEq \o <<"x">>), NoTag) >>

TopTypes == {"AppConfig", "ReadmeConfig", "Deep", "Probe", "NestProbe", "Multi"}

StructTypes == TopTypes \cup {"LoggerT", "AdguardT", "MidT", "LeafT", "InnerT"}

\* rt.NumField() / rt.Field(i) of a structure type.
FieldsOf(t) ==
    CASE t = "AppConfig"    -> AppConfigFields
      [] t = "ReadmeConfig" -> ReadmeConfigFields
      [] t = "LoggerT"      -> LoggerFields
      [] t = "AdguardT"     -> AdguardFields
      [] t = "Deep"         -> DeepFields
      [] t = "MidT"         -> MidFields
      [] t = "LeafT"        -> LeafFields
      [] t = "Probe"        -> ProbeFields
      [] t = "NestProbe"    -> NestProbeFields
      [] t = "InnerT"       -> InnerFields
      [] t = "Multi"        -> MultiFields

FieldNames(t) ==
    LET Names(fs) == { fs[i].name : i \in 1..Len(fs) }
    IN  Names(FieldsOf(t))

FieldNamed(t, name) ==
    LET Pick(fs) == fs[CHOOSE i \in 1..Len(fs) : fs[i].name = name]
    IN  Pick(FieldsOf(t))

\* ------------------------------------------------------------------------
\* Values (reflect.Value)
\* ------------------------------------------------------------------------

NilSlice == [isNil |-> TRUE, elems |-> <<>>]

\* The zero value of a field's type.
RECURSIVE ZeroOf(_, _)
ZeroOf(kind, elem) ==
    LET ZeroField(fd) == ZeroOf(fd.kind, fd.elem) IN
    CASE kind = "bool"    -> FALSE
      [] kind \in {"int", "int8", "uint8"} -> 0
      [] kind = "float64" -> [num |-> 0, scale |-> 0]
      [] kind = "string"  -> <<>>
      [] kind = "slice"   -> NilSlice
      [] kind = "ptr"     -> [isNil |-> TRUE]
      [] kind = "struct"  ->
            [n \in FieldNames(elem) |-> ZeroField(FieldNamed(elem, n))]

\* reflect.Value.IsZero, which isZeroValue returns.
RECURSIVE IsZero(_, _, _)
IsZero(kind, elem, v) ==
    LET ZeroField(fd, fv) == IsZero(fd.kind, fd.elem, fv) IN
    CASE kind = "bool"    -> v = FALSE
      [] kind \in {"int", "int8", "uint8"} -> v = 0
      [] kind = "float64" -> v.num = 0
      [] kind = "string"  -> Len(v) = 0
      [] kind = "slice"   -> v.isNil
      [] kind = "ptr"     -> v.isNil
      [] kind = "struct"  ->
            \A n \in FieldNames(elem) : ZeroField(FieldNamed(elem, n), v[n])

isZeroValue(fd, v) == IsZero(fd.kind, fd.elem, v)

\* A non-zero value of each scalar kind, as a caller may have stored it.
Sample(kind) ==
    CASE kind = "bool"    -> TRUE
      [] kind \in {"int", "int8", "uint8"} -> 7
      [] kind = "float64" -> [num |-> 25, scale |-> 1]
      [] kind = "string"  -> <<"q">>
      [] kind = "slice"   -> [isNil |-> FALSE, elems |-> << <<"q">> >>]

\* The value at a path of field names below v.
RECURSIVE GetAt(_, _)
GetAt(v, path) ==
    IF Len(path) = 0 THEN v ELSE GetAt(v[path[1]], Tail(path))

\* The type name and declaration reached by a path of field names from t.
RECURSIVE DeclAt(_, _)
DeclAt(t, path) ==
    IF Len(path) = 1 THEN FieldNamed(t, path[1])
    ELSE DeclAt(FieldNamed(t, path[1]).elem, Tail(path))

\* ------------------------------------------------------------------------
\* ConfigType
\* ------------------------------------------------------------------------

ConfigTypeNone == 0
ConfigTypeYAML == 1
ConfigTypeJSON == 2

\* The largest value of a uint8.
MaxConfigType == 255

sNone == <<"n","o","n","e">>
sYaml == <<"y","a","m","l">>
sJson == <<"j","s","o","n">>

ctName == <<sNone, sYaml, sJson>>

\* ConfigType.String(): [ok, str]; ok is FALSE when ctName[ctInt] is out of
\* range, which panics.
String(ct) ==
    LET At(ctInt) ==
            IF ctInt + 1 \in DOMAIN ctName
            THEN [ok |-> TRUE, str |-> ctName[ctInt + 1]]
            ELSE [ok |-> FALSE, str |-> <<>>]
    IN  At(IF ct < 0 \/ ct > Len(ctName) THEN 0 ELSE ct)

\* ConfigType.IsValid(): [ok, v]; it panics when String does.
IsValid(ct) ==
    LET Named(n) == [ok |-> n.ok, v |-> n.ok /\ n.str # sNone]
    IN  Named(String(ct))

\* ------------------------------------------------------------------------
\* Errors (fmt.Errorf): the parts an error message names
\* ------------------------------------------------------------------------

\* kind: "nil" (no error), "shape", "required", "default", "unmarshal";
\* wraps: the nested field names the error was wrapped with, outermost first;
\* prefix, key, field: what a required error names; detail: the rest.
MkErr(kind, key, field, detail) ==
    [kind |-> kind, wraps |-> <<>>, prefix |-> <<>>, key |-> key,
     field |-> field, detail |-> detail]

NoErr == MkErr("nil", <<>>, "", "")

IsErr(e) == e.kind # "nil"

\* "... nested struct %q -> %w": the nested error with one more field name.
WrapNested(name, e) == [e EXCEPT !.wraps = <<name>> \o @]

\* ------------------------------------------------------------------------
\* Config.getOrBuildFieldMeta: tag parsing and the metadata cache
\* ------------------------------------------------------------------------

EmptyMeta(name, i) ==
    [name |-> name, index |-> i, mapTag |-> <<>>, required |-> FALSE,
     hasDefault |-> FALSE, defaultVal |-> <<>>, isStruct |-> FALSE]

\* The switch on one comma-separated part of the rules tag.
ApplyPart(fm, rawPart) ==
    LET Default(kv) ==
            IF Len(kv) = 2
            THEN [fm EXCEPT !.hasDefault = TRUE, !.defaultVal = kv[2]]
            ELSE fm
        Switch(part) ==
            CASE EqualFold(part, sStruct)   -> [fm EXCEPT !.isStruct = TRUE]
              [] EqualFold(part, sRequired) -> [fm EXCEPT !.required = TRUE]
              [] HasPrefix(part, sDefaultEq) -> Default(SplitN2(part, "="))
              [] OTHER -> fm
    IN  Switch(TrimSpace(rawPart))

RECURSIVE ApplyParts(_, _)
ApplyParts(fm, parts) ==
    IF Len(parts) = 0 THEN fm
    ELSE ApplyParts(ApplyPart(fm, parts[1]), Tail(parts))

\* The mapstructure tag recorded in the metadata (for error messages).
MetaMapTag(sf) ==
    IF sf.ms.has /\ sf.ms.tag # sDash THEN sf.ms.tag ELSE <<>>

\* One iteration of the build loop: the list with field i's entry appended,
\* or unchanged when the field is skipped.
BuildStep(t, i, lst) ==
    LET Entry(sf) ==
            IF ~sf.exported THEN lst
            ELSE IF ~sf.cfg.has \/ sf.cfg.tag = sDash THEN lst
            ELSE Append(lst,
                        [ApplyParts(EmptyMeta(sf.name, i), Split(sf.cfg.tag, ","))
                           EXCEPT !.mapTag = MetaMapTag(sf)])
    IN  Entry(FieldsOf(t)[i])

RECURSIVE BuildFrom(_, _, _)
BuildFrom(t, i, lst) ==
    IF i > Len(FieldsOf(t)) THEN lst
    ELSE BuildFrom(t, i + 1, BuildStep(t, i, lst))

\* The whole build loop of getOrBuildFieldMeta.
BuildFieldMeta(t) == BuildFrom(t, 1, <<>>)

\* An empty Go map.
EmptyMap == [x \in {} |-> <<>>]

\* m[k] = v on a Go map.
MapSet(m, k, v) == (k :> v) @@ m

\* The list built is stored, but the caller of the build is handed an empty
\* list.
getOrBuildFieldMetaEmptyOnBuild(cache, t) ==
    LET Built(lst) == [metas |-> <<>>, cache |-> MapSet(cache, t, lst)]
    IN  IF t \in DOMAIN cache
        THEN [metas |-> cache[t], cache |-> cache]
        ELSE Built(BuildFieldMeta(t))

\* getOrBuildFieldMeta run without interference: the cached list, or the
\* list built and stored.
getOrBuildFieldMeta(cache, t) ==
    LET Built(lst) == [metas |-> lst, cache |-> MapSet(cache, t, lst)]
    IN  IF t \in DOMAIN cache
        THEN [metas |-> cache[t], cache |-> cache]
        ELSE Built(BuildFieldMeta(t))

\* ------------------------------------------------------------------------
\* setFieldDefault
\* ------------------------------------------------------------------------

\* reflect.Value.SetInt / SetUint on a field of the given kind: the value is
\* converted to the field's width.
SetInt(kind, x) ==
    CASE kind = "int8"  -> ((x + 128) % 256) - 128
      [] kind = "uint8" -> x % 256
      [] OTHER          -> x

\* [ok, v, detail]: the value stored into the field, or the error.
setFieldDefault(fd, defaultStr) ==
    LET FromBool(b) ==
            IF b.ok THEN [ok |-> TRUE, v |-> b.v, detail |-> ""]
            ELSE [ok |-> FALSE, v |-> FALSE, detail |-> "invalid bool default"]
        FromInt(i) ==
            IF i.ok THEN [ok |-> TRUE, v |-> SetInt(fd.kind, i.v), detail |-> ""]
            ELSE [ok |-> FALSE, v |-> 0, detail |-> "invalid int default"]
        FromUint(u) ==
            IF u.ok THEN [ok |-> TRUE, v |-> SetInt(fd.kind, u.v), detail |-> ""]
            ELSE [ok |-> FALSE, v |-> 0, detail |-> "invalid uint default"]
        FromFloat(f) ==
            IF f.ok THEN [ok |-> TRUE, v |-> f.v, detail |-> ""]
            ELSE [ok |-> FALSE, v |-> f.v, detail |-> "invalid float default"]
    IN  CASE fd.kind = "bool"           -> FromBool(ParseBool(defaultStr))
          [] fd.kind \in {"int", "int8"} -> FromInt(ParseInt(defaultStr, 10, 64))
          [] fd.kind = "uint8"          -> FromUint(ParseUint(defaultStr, 10, 64))
          [] fd.kind = "float64"        -> FromFloat(ParseFloat(defaultStr))
          [] fd.kind = "string" ->
                [ok |-> TRUE, v |-> defaultStr, detail |-> ""]
          [] OTHER ->
                [ok |-> FALSE, v |-> <<>>, detail |-> "unsupported kind"]

\* ------------------------------------------------------------------------
\* Config.Check
\* ------------------------------------------------------------------------

\* The key looked up in the registry that ReadEnv fills.
RequiredKeyFromRegistry(cc, fm) ==
    IF fm.name \in DOMAIN cc.msTag THEN cc.msTag[fm.name] ELSE <<>>

\* The key a required error names (fm.mapTag).
RequiredKey(cc, fm) == fm.mapTag

\* The required gate giving way to a default.
RequiredFailsUnlessDefault(fm, zero) == fm.required /\ zero /\ ~fm.hasDefault

\* 3b) the required gate.
RequiredFails(fm, zero) == fm.required /\ zero

\* The default gate without its zero test.
DefaultAppliesAlways(fm, zero) == fm.hasDefault

\* 3c) the default gate.
DefaultApplies(fm, zero) == zero /\ fm.hasDefault

\* One entry of the record of a Check: a field Check inspected, its value on
\* entry to its iteration (pre), at the required / default gates (gate) and
\* after its iteration (post), and how the iteration ended: "ok",
\* "defaulted", "required", "default", "nested".
Visit(path, pre, gate, post, outcome) ==
    [path |-> path, pre |-> pre, gate |-> gate, post |-> post,
     outcome |-> outcome]

RECURSIVE CheckStruct(_, _, _, _, _)
RECURSIVE CheckFields(_, _, _, _, _, _, _)

\* Check on a non-nil pointer to a value of the given kind.
CheckPtr(cc, kind, elem, v, path, tr) ==
    IF kind # "struct"
    THEN [err |-> MkErr("shape", <<>>, "", "pointer to " \o kind),
          val |-> v, cc |-> cc, trace |-> tr]
    ELSE CheckStruct(cc, elem, v, path, tr)

\* 2) and 3) of Check on a structure of type t.
CheckStruct(cc, t, rv, path, tr) ==
    LET Loop(g) ==
            CheckFields([cc EXCEPT !.structFields = g.cache], t, rv, path,
                        g.metas, 1, tr)
    IN  Loop(getOrBuildFieldMeta(cc.structFields, t))

\* The loop of Check from metadata entry i on.
CheckFields(cc, t, rv, path, metas, i, tr) ==
    LET fm    == metas[i]
        fpath == Append(path, fm.name)
        fv0   == rv[fm.name]
        \* 3b) and 3c) on the field, after the recursion of 3a) has returned.
        Gates(fd, nested, d) ==
            LET fv1  == nested.val
                rv1  == [rv EXCEPT ![fm.name] = fv1]
                zero == isZeroValue(fd, fv1)
            IN  IF IsErr(nested.err)
                THEN [err   |-> WrapNested(fm.name, nested.err),
                      val   |-> rv1, cc |-> nested.cc,
                      trace |-> Append(nested.trace,
                                       Visit(fpath, fv0, fv1, fv1, "nested"))]
                ELSE IF RequiredFails(fm, zero)
                THEN [err   |-> [MkErr("required", RequiredKey(cc, fm),
                                       fm.name, "")
                                   EXCEPT !.prefix = cc.envPrefix],
                      val   |-> rv1, cc |-> nested.cc,
                      trace |-> Append(nested.trace,
                                       Visit(fpath, fv0, fv1, fv1, "required"))]
                ELSE IF DefaultApplies(fm, zero)
                THEN IF ~d.ok
                     THEN [err   |-> MkErr("default", <<>>, fm.name, d.detail),
                           val   |-> rv1, cc |-> nested.cc,
                           trace |-> Append(nested.trace,
                                       Visit(fpath, fv0, fv1, fv1, "default"))]
                     ELSE CheckFields(nested.cc, t,
                                      [rv1 EXCEPT ![fm.name] = d.v],
                                      path, metas, i + 1,
                                      Append(nested.trace,
                                       Visit(fpath, fv0, fv1, d.v, "defaulted")))
                ELSE CheckFields(nested.cc, t, rv1, path, metas, i + 1,
                                 Append(nested.trace,
                                        Visit(fpath, fv0, fv1, fv1, "ok")))
        \* 3a) on the field with declaration fd.
        Field(fd) ==
            Gates(fd,
                  IF fm.isStruct
                  THEN CheckPtr(cc, fd.kind, fd.elem, fv0, fpath, tr)
                  ELSE [err |-> NoErr, val |-> fv0, cc |-> cc, trace |-> tr],
                  setFieldDefault(fd, fm.defaultVal))
    IN  IF i > Len(metas)
        THEN [err |-> NoErr, val |-> rv, cc |-> cc, trace |-> tr]
        ELSE Field(FieldsOf(t)[fm.index])

\* What a caller may pass as s: nothing (a nil interface), a structure by
\* value, a nil pointer, a pointer to an integer, a pointer to its structure.
ArgShapes == {"nil", "value", "nilptr", "ptrint", "ptr"}

\* rv.Kind() of reflect.ValueOf(s) for each shape.
ArgKind(shape) ==
    CASE shape = "nil"   -> "invalid"
      [] shape = "value" -> "struct"
      [] OTHER           -> "ptr"

\* The shape check without its test of the pointed-to kind.
ShapeErrorPointerOnly(shape) ==
    IF ArgKind(shape) # "ptr" \/ shape = "nilptr"
    THEN MkErr("shape", <<>>, "", ArgKind(shape))
    ELSE NoErr

\* 1) of Check and of ReadEnv: the error for an argument that is not a
\* non-nil pointer to a structure, NoErr otherwise.
ShapeError(shape) ==
    IF ArgKind(shape) # "ptr" \/ shape = "nilptr"
    THEN MkErr("shape", <<>>, "", ArgKind(shape))
    ELSE IF shape = "ptrint"
    THEN MkErr("shape", <<>>, "", "pointer to int")
    ELSE NoErr

\* rv.Type().NumField() panics when rv is not a structure: what follows the
\* shape check on an argument that is not a pointer to the structure.
Panic == MkErr("panic", <<>>, "", "reflect: NumField of non-struct type")

\* Config.Check(s).
Check(cc, shape, t, rv) ==
    IF IsErr(ShapeError(shape))
    THEN [err |-> ShapeError(shape), val |-> rv, cc |-> cc, trace |-> <<>>]
    ELSE IF shape # "ptr"
    THEN [err |-> Panic, val |-> rv, cc |-> cc, trace |-> <<>>]
    ELSE CheckStruct(cc, t, rv, <<>>, <<>>)

\* ------------------------------------------------------------------------
\* The external key-value source (viper): BindEnv and Unmarshal
\* ------------------------------------------------------------------------

\* A bound key surfaces in the settings when its environment variable is set
\* and not empty.
Surfaced(bnd, k) == k \in bnd /\ k \in DOMAIN env /\ Len(env[k]) > 0

\* The weakly typed decoding of an environment string into a field.
Decode(kind, str) ==
    LET Value(r) == [ok |-> r.ok, v |-> r.v]
        FromBool(b) == IF b.ok THEN [ok |-> TRUE, v |-> b.v]
                   ELSE [ok |-> Len(str) = 0, v |-> FALSE]
    IN  CASE kind = "bool"    -> FromBool(ParseBool(str))
          [] kind = "int"     -> Value(ParseInt(str, 0, 64))
          [] kind = "int8"    -> Value(ParseInt(str, 0, 8))
          [] kind = "uint8"   -> Value(ParseUint(str, 0, 8))
          [] kind = "float64" -> ParseFloat(str)
          [] kind = "string"  -> [ok |-> TRUE, v |-> str]
          [] kind = "slice"   ->
                [ok |-> TRUE, v |-> [isNil |-> FALSE, elems |-> Split(str, ",")]]
          [] OTHER -> [ok |-> FALSE, v |-> <<>>]

\* Whether Unmarshal finds a setting for the field: the field is exported,
\* its mapstructure tag names a key, and that key surfaces.  (Keys are
\* written in upper case throughout, and no field without a mapstructure tag
\* bears the name of a key, so matching by name never applies.)
HasSetting(sf, bnd) ==
    /\ sf.exported
    /\ sf.ms.has /\ sf.ms.tag # <<>> /\ sf.ms.tag # sDash
    /\ Surfaced(bnd, sf.ms.tag)

\* viper.Unmarshal(s) on a structure of type t: every field of this level
\* with a surfaced key is decoded; a field that fails to decode is left as
\* it is and makes the call return an error.
RECURSIVE PopulateFrom(_, _, _, _, _)
PopulateFrom(t, rv, bnd, i, failed) ==
    LET Field(sf) ==
            LET Stored(d) ==
                    IF d.ok
                    THEN PopulateFrom(t, [rv EXCEPT ![sf.name] = d.v], bnd,
                                      i + 1, failed)
                    ELSE PopulateFrom(t, rv, bnd, i + 1, TRUE)
            IN  IF ~HasSetting(sf, bnd)
                THEN PopulateFrom(t, rv, bnd, i + 1, failed)
                ELSE Stored(Decode(sf.kind, env[sf.ms.tag]))
    IN  IF i > Len(FieldsOf(t))
        THEN [err |-> IF failed THEN MkErr("unmarshal", <<>>, "", "") ELSE NoErr,
              val |-> rv]
        ELSE Field(FieldsOf(t)[i])

Populate(t, rv, bnd) == PopulateFrom(t, rv, bnd, 1, FALSE)

\* ------------------------------------------------------------------------
\* Config.ReadEnv
\* ------------------------------------------------------------------------

\* 2a) whether ReadEnv recurses into the field.
BindRecurses(sf) == sf.cfg.has /\ EqualFold(sf.cfg.tag, sStruct)

\* 2b) whether ReadEnv binds the field's mapstructure tag.
BindsKey(sf) == sf.ms.has /\ sf.ms.tag # sDash

\* Events of the record of a ReadEnv: "enter" (an invocation passed its
\* shape check), "field" (a visible field's iteration begins), "recurse"
\* (ReadEnv is invoked on the field's address), "bind"
\* (viper.BindEnv and the msTag entry), "unmarshal" (viper.Unmarshal on the
\* structure at path), "fail" (the invocation returns an error).
Ev(ev, path, key) == [ev |-> ev, path |-> path, key |-> key]

RECURSIVE ReadEnvStruct(_, _, _, _, _, _)
RECURSIVE ReadEnvFields(_, _, _, _, _, _, _)

\* ReadEnv on a non-nil pointer to a value of the given kind.
ReadEnvPtr(ms, bnd, kind, elem, v, path, tr) ==
    IF kind # "struct"
    THEN [err |-> MkErr("shape", <<>>, "", "pointer to " \o kind),
          val |-> v, msTag |-> ms, bound |-> bnd,
          trace |-> Append(tr, Ev("fail", path, <<>>))]
    ELSE ReadEnvStruct(ms, bnd, elem, v, path, tr)

\* 2b) on a field: viper.BindEnv(mapTag) and c.msTag[sf.Name] = mapTag.
BindKey(r, sf, fpath) ==
    IF BindsKey(sf)
    THEN [r EXCEPT !.msTag = MapSet(@, sf.name, sf.ms.tag),
                   !.bound = @ \cup {sf.ms.tag},
                   !.trace = Append(@, Ev("bind", fpath, sf.ms.tag))]
    ELSE r

\* The body of the loop with 2b) before 2a).
FieldStepBindFirst(ms, bnd, t, rv, path, i, tr) ==
    LET Step(sf, fpath) ==
            LET Recurse(r0) ==
                    IF BindRecurses(sf)
                    THEN ReadEnvPtr(r0.msTag, r0.bound, sf.kind, sf.elem,
                                    rv[sf.name], fpath,
                                    Append(r0.trace, Ev("recurse", fpath, <<>>)))
                    ELSE r0
            IN  Recurse(BindKey([err |-> NoErr, val |-> rv[sf.name],
                                 msTag |-> ms, bound |-> bnd,
                                 trace |-> Append(tr, Ev("field", fpath, <<>>))],
                                sf, fpath))
        Field(sf) == Step(sf, Append(path, sf.name))
    IN  Field(FieldsOf(t)[i])

\* The body of the loop for the visible field i: 2a) the recursion into a
\* nested structure, then 2b) the binding of the field's own key.  The
\* result holds the field's value.
FieldStep(ms, bnd, t, rv, path, i, tr) ==
    LET Step(sf, fpath) ==
            LET Bind(nested) ==
                    IF IsErr(nested.err) THEN nested
                    ELSE BindKey(nested, sf, fpath)
            IN  Bind(IF BindRecurses(sf)
                     THEN ReadEnvPtr(ms, bnd, sf.kind, sf.elem, rv[sf.name],
                                     fpath,
                                     tr \o <<Ev("field", fpath, <<>>),
                                             Ev("recurse", fpath, <<>>)>>)
                     ELSE [err |-> NoErr, val |-> rv[sf.name], msTag |-> ms,
                           bound |-> bnd,
                           trace |-> Append(tr, Ev("field", fpath, <<>>))])
        Field(sf) == Step(sf, Append(path, sf.name))
    IN  Field(FieldsOf(t)[i])

\* 2) and 3) of ReadEnv on a structure of type t.
ReadEnvStruct(ms, bnd, t, rv, path, tr) ==
    ReadEnvFields(ms, bnd, t, rv, path, 1, Append(tr, Ev("enter", path, <<>>)))

\* The loop of ReadEnv from field i on, then 3) the Unmarshal.
ReadEnvFields(ms, bnd, t, rv, path, i, tr) ==
    LET Finish(u) ==
            [err |-> u.err, val |-> u.val, msTag |-> ms, bound |-> bnd,
             trace |-> IF IsErr(u.err)
                       THEN tr \o <<Ev("unmarshal", path, <<>>),
                                    Ev("fail", path, <<>>)>>
                       ELSE Append(tr, Ev("unmarshal", path, <<>>))]
        Field(sf) ==
            LET Continue(r) ==
                    IF IsErr(r.err)
                    THEN [err |-> WrapNested(sf.name, r.err),
                          val |-> [rv EXCEPT ![sf.name] = r.val],
                          msTag |-> r.msTag, bound |-> r.bound,
                          trace |-> Append(r.trace, Ev("fail", path, <<>>))]
                    ELSE ReadEnvFields(r.msTag, r.bound, t,
                                       [rv EXCEPT ![sf.name] = r.val],
                                       path, i + 1, r.trace)
            IN  IF ~sf.exported
                THEN ReadEnvFields(ms, bnd, t, rv, path, i + 1, tr)
                ELSE Continue(FieldStep(ms, bnd, t, rv, path, i, tr))
    IN  IF i > Len(FieldsOf(t))
        THEN Finish(Populate(t, rv, bnd))
        ELSE Field(FieldsOf(t)[i])

\* Config.ReadEnv(s).
ReadEnv(ms, bnd, shape, t, rv) ==
    IF IsErr(ShapeError(shape))
    THEN [err |-> ShapeError(shape), val |-> rv, msTag |-> ms, bound |-> bnd,
          trace |-> <<>>]
    ELSE IF shape # "ptr"
    THEN [err |-> Panic, val |-> rv, msTag |-> ms, bound |-> bnd,
          trace |-> <<>>]
    ELSE ReadEnvStruct(ms, bnd, t, rv, <<>>, <<>>)

\* ------------------------------------------------------------------------
\* Initial states: the structure type, the environment, the caller's values
\* ------------------------------------------------------------------------

DefaultProbe ==
    [kind |-> "string", cfg |-> NoTag, ms |-> NoTag, exported |-> TRUE,
     nestKind |-> "struct", nestCfg |-> Tag(sStruct)]

ProbeChoices(t) ==
    CASE t = "Probe" ->
            { [DefaultProbe EXCEPT !.kind = k, !.cfg = cf, !.ms = m] :
                k \in ScalarKinds, cf \in CfgPool, m \in MsPool }
      [] t = "NestProbe" ->
            { [DefaultProbe EXCEPT !.nestKind = nk, !.nestCfg = nc] :
                nk \in {"struct", "int8"}, nc \in NestCfgPool }
      [] OTHER -> {DefaultProbe}

\* The environment of TestAutoConfig.
TestEnv ==
    (kADDRESS :> vLoopback) @@ (kPORT :> v9000) @@ (kORIGIN :> vOrigins)
        @@ (kENABLED :> sTrue)

\* The variables set in the environment, under the engine's prefix.
EnvChoices(t) ==
    CASE t = "Probe" ->
            IF probe.ms = Tag(kP)
            THEN {EmptyMap} \cup { (kP :> v) : v \in EnvPool }
            ELSE {EmptyMap}
      [] t = "NestProbe" ->
            {EmptyMap, (kA :> <<"x">>), (kB :> <<"5">>),
             (kA :> <<"x">>) @@ (kB :> <<"5">>),
             (kB :> <<"3","0","0">>)}
      [] t = "AppConfig" ->
            {EmptyMap, TestEnv, (kPORT :> <<"0">>)}
      [] t = "ReadmeConfig" ->
            {EmptyMap, (kSERVERIP :> vLoopback),
             (kSERVERIP :> vLoopback) @@ (kADDRESS :> vLoopback)
                @@ (kUSERNAME :> <<"x">>) @@ (kFORMAT :> <<"x">>)}
      [] t = "Deep" ->
            {EmptyMap, (kL :> <<"x">>), (kMID :> <<"x">>)}
      [] t = "Multi" ->
            {EmptyMap, (kA :> <<"5">>), (kB :> <<"x">>)}

\* The structure the caller passes: new(T), or with a field already set.
InitObjs(t) ==
    LET From(z) ==
        CASE t = "Probe" -> {z, [z EXCEPT !["F"] = Sample(probe.kind)]}
          [] t = "NestProbe" ->
                IF probe.nestKind = "struct"
                THEN { [z EXCEPT !["N"] = [@ EXCEPT !["A"] = a, !["B"] = b]] :
                         a \in {<<>>, <<"q">>}, b \in {0, 7} }
                ELSE {z, [z EXCEPT !["N"] = Sample(probe.nestKind)]}
          [] t = "AppConfig" -> {z, [z EXCEPT !["Port"] = 7]}
          [] t = "ReadmeConfig" -> {z, [z EXCEPT !["ServerIP"] = <<"q">>]}
          [] t = "Deep" ->
                {z, [z EXCEPT !["Mid"] = [@ EXCEPT !["Leaf"] =
                                            [@ EXCEPT !["L"] = <<"q">>]]]}
          [] t = "Multi" ->
                { [z EXCEPT !["X"] = x, !["V"] = v, !["W"] = w] :
                    x \in {0, 7}, v \in {<<>>, <<"q">>}, w \in BOOLEAN }
    IN  From(ZeroOf("struct", t))

Callers == 1..NumCallers

\* New(prefix).
New(prefix) ==
    [envPrefix |-> prefix, msTag |-> EmptyMap, structFields |-> EmptyMap,
     project |-> <<>>, dirname |-> <<>>, cfgBaseName |-> <<>>,
     cfgType |-> ConfigTypeNone]

NoOp(o) ==
    [op |-> "none", shape |-> "", err |-> NoErr, trace |-> <<>>, pre |-> o]

\* What a caller of getOrBuildFieldMeta holds before its call returns.
NoReturn == [done |-> FALSE, metas |-> <<>>, via |-> ""]

InitCacheVars ==
    /\ mu = [readers |-> {}, writer |-> 0]
    /\ pc = [p \in Callers |-> "idle"]
    /\ rt = [p \in Callers |-> "AppConfig"]
    /\ list = [p \in Callers |-> <<>>]
    /\ idx = [p \in Callers |-> 0]
    /\ ret = [p \in Callers |-> NoReturn]
    /\ calls = [p \in Callers |-> 0]
    /\ builds = EmptyMap

Init ==
    /\ target \in TopTypes
    /\ probe \in ProbeChoices(target)
    /\ env \in EnvChoices(target)
    /\ obj \in InitObjs(target)
    /\ c = New(EnvPrefix)
    /\ bound = {}
    /\ last = NoOp(obj)
    /\ prev = NoOp(obj)
    /\ InitCacheVars

\* ------------------------------------------------------------------------
\* Actions of the engine
\* ------------------------------------------------------------------------

\* The caller invokes ReadEnv and Check in any order, and stops at the first
\* error, as the test and the README do after each call.
DoReadEnv(shape) ==
    /\ ~IsErr(last.err)
    /\ \E r \in {ReadEnv(c.msTag, bound, shape, target, obj)} :
       /\ obj' = r.val
       /\ c' = [c EXCEPT !.msTag = r.msTag]
       /\ bound' = r.bound
       /\ last' = [op |-> "ReadEnv", shape |-> shape, err |-> r.err,
                   trace |-> r.trace, pre |-> obj]
       /\ prev' = last
    /\ UNCHANGED <<target, probe, env>>
    /\ UNCHANGED cacheVars

DoCheck(shape) ==
    /\ ~IsErr(last.err)
    /\ \E r \in {Check(c, shape, target, obj)} :
       /\ obj' = r.val
       /\ c' = r.cc
       /\ last' = [op |-> "Check", shape |-> shape, err |-> r.err,
                   trace |-> r.trace, pre |-> obj]
       /\ prev' = last
    /\ UNCHANGED <<target, probe, env, bound>>
    /\ UNCHANGED cacheVars

Next ==
    \/ \E shape \in ArgShapes : DoReadEnv(shape)
    \/ \E shape \in ArgShapes : DoCheck(shape)

Spec == Init /\ [][Next]_vars

\* ------------------------------------------------------------------------
\* getOrBuildFieldMeta, step by step, under concurrent callers
\* ------------------------------------------------------------------------

\* The structure types the concurrent callers ask for.
CacheTypes == {"AppConfig", "InnerT"}

\* One engine shared by the callers; nothing else runs on it.
InitCache ==
    /\ target = "AppConfig"
    /\ probe = DefaultProbe
    /\ env = EmptyMap
    /\ obj = ZeroOf("struct", "AppConfig")
    /\ c = New(EnvPrefix)
    /\ bound = {}
    /\ last = NoOp(obj)
    /\ prev = NoOp(obj)
    /\ InitCacheVars

\* A goroutine calls getOrBuildFieldMeta(rt).
Call(p, t) ==
    /\ pc[p] = "idle"
    /\ calls[p] < MaxCalls
    /\ pc' = [pc EXCEPT ![p] = "rlock"]
    /\ rt' = [rt EXCEPT ![p] = t]
    /\ calls' = [calls EXCEPT ![p] = @ + 1]
    /\ ret' = [ret EXCEPT ![p] = NoReturn]
    /\ UNCHANGED <<mu, list, idx, builds>>
    /\ UNCHANGED engineVars

\* c.mu.RLock(): granted while no writer holds the lock.
RLock(p) ==
    /\ pc[p] = "rlock"
    /\ mu.writer = 0
    /\ mu' = [mu EXCEPT !.readers = @ \cup {p}]
    /\ pc' = [pc EXCEPT ![p] = "lookup"]
    /\ UNCHANGED <<rt, list, idx, ret, calls, builds>>
    /\ UNCHANGED engineVars

\* The fast path finds the entry.
LookupHit(p) ==
    /\ pc[p] = "lookup"
    /\ rt[p] \in DOMAIN c.structFields
    /\ ret' = [ret EXCEPT ![p] = [done |-> FALSE,
                                  metas |-> c.structFields[rt[p]],
                                  via |-> "fast"]]
    /\ pc' = [pc EXCEPT ![p] = "runlock_hit"]
    /\ UNCHANGED <<mu, rt, list, idx, calls, builds>>
    /\ UNCHANGED engineVars

\* c.mu.RUnlock() and return metas, nil.
RUnlockHit(p) ==
    /\ pc[p] = "runlock_hit"
    /\ mu' = [mu EXCEPT !.readers = @ \ {p}]
    /\ ret' = [ret EXCEPT ![p].done = TRUE]
    /\ pc' = [pc EXCEPT ![p] = "idle"]
    /\ UNCHANGED <<rt, list, idx, calls, builds>>
    /\ UNCHANGED engineVars

\* The fast path does not find the entry.
LookupMiss(p) ==
    /\ pc[p] = "lookup"
    /\ rt[p] \notin DOMAIN c.structFields
    /\ pc' = [pc EXCEPT ![p] = "runlock_miss"]
    /\ UNCHANGED <<mu, rt, list, idx, ret, calls, builds>>
    /\ UNCHANGED engineVars

\* c.mu.RUnlock() after the miss.
RUnlockMiss(p) ==
    /\ pc[p] = "runlock_miss"
    /\ mu' = [mu EXCEPT !.readers = @ \ {p}]
    /\ pc' = [pc EXCEPT ![p] = "lock"]
    /\ UNCHANGED <<rt, list, idx, ret, calls, builds>>
    /\ UNCHANGED engineVars

\* c.mu.Lock(): granted while nobody holds the lock.
Lock(p) ==
    /\ pc[p] = "lock"
    /\ mu.writer = 0 /\ mu.readers = {}
    /\ mu' = [mu EXCEPT !.writer = p]
    /\ pc' = [pc EXCEPT ![p] = "recheck"]
    /\ UNCHANGED <<rt, list, idx, ret, calls, builds>>
    /\ UNCHANGED engineVars

\* A second lookup that finds nothing, whatever the cache holds.
NeverFoundUnderLock(cache, t) == FALSE

\* The second lookup, under the write lock.
FoundUnderLock(cache, t) == t \in DOMAIN cache

\* Another goroutine has cached the entry meanwhile.
RecheckHit(p) ==
    /\ pc[p] = "recheck"
    /\ FoundUnderLock(c.structFields, rt[p])
    /\ ret' = [ret EXCEPT ![p] = [done |-> FALSE,
                                  metas |-> c.structFields[rt[p]],
                                  via |-> "recheck"]]
    /\ pc' = [pc EXCEPT ![p] = "unlock"]
    /\ UNCHANGED <<mu, rt, list, idx, calls, builds>>
    /\ UNCHANGED engineVars

\* Nobody has: var list []fieldMeta, and the loop starts.
RecheckMiss(p) ==
    /\ pc[p] = "recheck"
    /\ ~FoundUnderLock(c.structFields, rt[p])
    /\ list' = [list EXCEPT ![p] = <<>>]
    /\ idx' = [idx EXCEPT ![p] = 1]
    /\ pc' = [pc EXCEPT ![p] = "build"]
    /\ UNCHANGED <<mu, rt, ret, calls, builds>>
    /\ UNCHANGED engineVars

\* One iteration of the build loop.
Build(p) ==
    /\ pc[p] = "build"
    /\ idx[p] <= Len(FieldsOf(rt[p]))
    /\ list' = [list EXCEPT ![p] = BuildStep(rt[p], idx[p], @)]
    /\ idx' = [idx EXCEPT ![p] = @ + 1]
    /\ UNCHANGED <<mu, pc, rt, ret, calls, builds>>
    /\ UNCHANGED engineVars

\* c.structFields[rt] = list; return list, nil.
Store(p) ==
    /\ pc[p] = "build"
    /\ idx[p] > Len(FieldsOf(rt[p]))
    /\ c' = [c EXCEPT !.structFields = MapSet(@, rt[p], list[p])]
    /\ builds' = MapSet(builds, rt[p],
                        IF rt[p] \in DOMAIN builds THEN builds[rt[p]] + 1 ELSE 1)
    /\ ret' = [ret EXCEPT ![p] = [done |-> FALSE, metas |-> list[p],
                                  via |-> "built"]]
    /\ pc' = [pc EXCEPT ![p] = "unlock"]
    /\ UNCHANGED <<mu, rt, list, idx, calls>>
    /\ UNCHANGED <<target, probe, env, obj, bound, last, prev>>

\* The deferred c.mu.Unlock(), and the call returns.
Unlock(p) ==
    /\ pc[p] = "unlock"
    /\ mu' = [mu EXCEPT !.writer = 0]
    /\ ret' = [ret EXCEPT ![p].done = TRUE]
    /\ pc' = [pc EXCEPT ![p] = "idle"]
    /\ UNCHANGED <<rt, list, idx, calls, builds>>
    /\ UNCHANGED engineVars

NextCache ==
    \/ \E p \in Callers, t \in CacheTypes : Call(p, t)
    \/ \E p \in Callers : RLock(p)
    \/ \E p \in Callers : LookupHit(p)
    \/ \E p \in Callers : RUnlockHit(p)
    \/ \E p \in Callers : LookupMiss(p)
    \/ \E p \in Callers : RUnlockMiss(p)
    \/ \E p \in Callers : Lock(p)
    \/ \E p \in Callers : RecheckHit(p)
    \/ \E p \in Callers : RecheckMiss(p)
    \/ \E p \in Callers : Build(p)
    \/ \E p \in Callers : Store(p)
    \/ \E p \in Callers : Unlock(p)

SpecCache == InitCache /\ [][NextCache]_vars

\* ------------------------------------------------------------------------
\* Config.Create
\* ------------------------------------------------------------------------

\* allowedRegex.ReplaceAllString(strings.ToLower(str), ""): the lower-case
\* letters, digits and blanks of the lowered string.
Sanitize(str) ==
    LET Allowed(ch) ==
            \/ \E i \in 1..26 : LowerChars[i] = ch
            \/ \E i \in 1..10 : DigitChars[i] = ch
            \/ ch = " "
    IN  SelectSeq([i \in 1..Len(str) |-> ToLowerCh(str[i])], Allowed)

\* os.UserHomeDir() of the process.
HomeDir == <<"/","h","o","m","e","/","u">>

\* Create(project, baseCfgName, baseDirname, cfgType) on the engine cc; fs
\* tells whether the home directory is known and the directory can be made.
\* Result: [err, cc].
Create(cc, project, baseCfgName, baseDirname, cfgType, fs) ==
    LET Named(valid) ==
            LET c1 == [cc EXCEPT
                         !.cfgType = IF valid.v THEN cfgType ELSE ConfigTypeYAML,
                         !.project = <<".">> \o Sanitize(project),
                         !.cfgBaseName = Sanitize(baseCfgName)]
                c2 == [c1 EXCEPT
                         !.dirname = IF Len(baseDirname) = 0
                                     THEN HomeDir \o <<"/">> \o project
                                     ELSE baseDirname]
            IN  IF ~valid.ok
                THEN [err |-> MkErr("panic", <<>>, "", "index out of range"),
                      cc |-> cc]
                ELSE IF Len(baseDirname) = 0 /\ fs = "nohome"
                THEN [err |-> MkErr("init", <<>>, "", "getting home dir"),
                      cc |-> c1]
                ELSE IF fs = "nomkdir"
                THEN [err |-> MkErr("init", <<>>, "", "error creating directory"),
                      cc |-> c2]
                ELSE IF ~String(c2.cfgType).ok
                THEN [err |-> MkErr("panic", <<>>, "", "index out of range"),
                      cc |-> c2]
                ELSE [err |-> NoErr, cc |-> c2]
    IN  IF Len(project) = 0
        THEN [err |-> MkErr("init", <<>>, "", "missing project name"), cc |-> cc]
        ELSE IF Len(baseCfgName) = 0
        THEN [err |-> MkErr("init", <<>>, "", "missing config base file name"),
              cc |-> cc]
        ELSE Named(IsValid(cfgType))

\* The values of a ConfigType (uint8).
ConfigTypes == 0..MaxConfigType

ProjectNames == { <<>>, <<"A","p","p","-","1">> }

BaseCfgNames == { <<>>, <<"c","f","g">> }

BaseDirnames == { <<>>, <<"/","e","t","c","/","a","p","p">> }

FsOutcomes == {"ok", "nohome", "nomkdir"}

\* The caller sets the engine up once, right after New.
DoCreate(project, baseCfgName, baseDirname, cfgType, fs) ==
    /\ ~IsErr(last.err)
    /\ Len(c.project) = 0
    /\ \E r \in {Create(c, project, baseCfgName, baseDirname, cfgType, fs)} :
       /\ c' = r.cc
       /\ last' = [op |-> "Create", shape |-> "", err |-> r.err,
                   trace |-> <<[project |-> project, baseCfgName |-> baseCfgName,
                                baseDirname |-> baseDirname,
                                cfgType |-> cfgType, fs |-> fs]>>,
                   pre |-> obj]
       /\ prev' = last
    /\ UNCHANGED <<target, probe, env, obj, bound>>
    /\ UNCHANGED cacheVars

NextCreate ==
    \E project \in ProjectNames, baseCfgName \in BaseCfgNames,
       baseDirname \in BaseDirnames, cfgType \in ConfigTypes,
       fs \in FsOutcomes :
        DoCreate(project, baseCfgName, baseDirname, cfgType, fs)

SpecCreate == InitCache /\ [][NextCreate]_vars

\* ------------------------------------------------------------------------
\* Rules tags put together from tokens
\* ------------------------------------------------------------------------

\* Tokens a rules tag may hold: the keywords in several cases and with
\* blanks around them, defaults with empty values, with "=" and with blanks
\* in their values, and tokens the parser does not know.
TokenPool ==
    { sStruct, <<"S","T","R","U","C","T">>, <<" ">> \o sRequired \o <<" ">>,
      sDefaultEq, sDefaultEq \o <<"a","=","b">>, sDefaultEq \o <<" ","a">>,
      sDefaultEq \o <<"a"," ">>, <<"D">> \o Tail(sDefaultEq) \o <<"x">>,
      <<"d","e","f","a","u","l","t">>, <<"b","o","g","u","s">>, <<>>, sDash }

\* The tags of 1..n tokens joined by commas.
RECURSIVE TagsOf(_)
TagsOf(n) ==
    IF n = 1 THEN TokenPool
    ELSE TagsOf(n - 1)
             \cup { a \o <<",">> \o b : a \in TagsOf(n - 1), b \in TokenPool }

\* The Probe structure with field F, exported or not, carrying no rules tag
\* or any tag of up to MaxTokens tokens.
InitTags ==
    /\ target = "Probe"
    /\ probe \in { [DefaultProbe EXCEPT !.cfg = cf, !.exported = x] :
                      cf \in {NoTag} \cup { Tag(tg) : tg \in TagsOf(MaxTokens) },
                      x \in BOOLEAN }
    /\ env = EmptyMap
    /\ obj = ZeroOf("struct", target)
    /\ c = New(EnvPrefix)
    /\ bound = {}
    /\ last = NoOp(obj)
    /\ prev = NoOp(obj)
    /\ InitCacheVars

SpecTags == InitTags /\ [][Next]_vars

\* ------------------------------------------------------------------------
\* Reading the record of the last invocation
\* ------------------------------------------------------------------------

Front(path) == SubSeq(path, 1, Len(path) - 1)

Last(path) == path[Len(path)]

\* The structure type at a path below the caller's structure.
TypeAt(path) == IF Len(path) = 0 THEN target ELSE DeclAt(target, path).elem

\* The declaration of an inspected field.
VisitDecl(e) == DeclAt(target, e.path)

\* The cached metadata entry of an inspected field.
VisitMeta(e) ==
    LET ms == c.structFields[TypeAt(Front(e.path))]
    IN  ms[CHOOSE i \in 1..Len(ms) : ms[i].name = Last(e.path)]

\* The iteration reached the field's own required / default gates.
ReachedGate(e) == e.outcome # "nested"

\* The key a field's binding tag declares, empty when it declares none.
DeclaredKey(fd) == IF fd.ms.has /\ fd.ms.tag # sDash THEN fd.ms.tag ELSE <<>>

Visits == DOMAIN last.trace

CheckRan == last.op = "Check" /\ last.shape = "ptr"

BindRan == last.op = "ReadEnv" /\ last.shape = "ptr"

\* Check ran right after a successful ReadEnv on the same structure.
CheckAfterBind ==
    /\ CheckRan
    /\ prev.op = "ReadEnv" /\ prev.shape = "ptr" /\ ~IsErr(prev.err)

\* ------------------------------------------------------------------------
\* C1
\* ------------------------------------------------------------------------

\* C1: whenever Check reaches the required gate of a field whose metadata has
\* required set: if the field is zero there, Check returns a required error
\* naming the engine's prefix, the key declared in the field's own binding
\* tag and the field name, the field stays zero even if it has a default;
\* if the field is non-zero, the iteration ends without error.  The registry
\* filled by ReadEnv plays no part: the same holds with and without a
\* preceding ReadEnv.
C1_RequiredGate ==
    CheckRan =>
        \A i \in Visits :
            LET e  == last.trace[i]
                fm == VisitMeta(e)
                fd == VisitDecl(e)
            IN  (fm.required /\ ReachedGate(e)) =>
                    IF isZeroValue(fd, e.gate)
                    THEN /\ e.outcome = "required"
                         /\ last.err.kind = "required"
                         /\ last.err.prefix = c.envPrefix
                         /\ last.err.key = DeclaredKey(fd)
                         /\ last.err.field = fd.name
                         /\ e.post = e.gate
                         /\ isZeroValue(fd, GetAt(obj, e.path))
                    ELSE e.outcome = "ok"

\* A required field with a default and a declared key is zero, ReadEnv was
\* never invoked, and Check fails on it.
C1_Witness ==
    /\ CheckRan
    /\ target = "Probe"
    /\ probe.ms = Tag(kP)
    /\ probe.cfg = Tag(sRequired \o <<",">> \o sDefaultEq \o <<"5">>)
    /\ c.msTag = EmptyMap
    /\ last.err.kind = "required"
    /\ last.err.key = kP
    /\ obj["F"] = ZeroOf(probe.kind, "")

\* ------------------------------------------------------------------------
\* C2
\* ------------------------------------------------------------------------

\* The default literal parsed for the field's own type and width.
WidthParse(fd, lit) ==
    CASE fd.kind = "bool"    -> ParseBool(lit)
      [] fd.kind = "string"  -> [ok |-> TRUE, v |-> lit]
      [] fd.kind = "int"     -> ParseInt(lit, 10, 64)
      [] fd.kind = "int8"    -> ParseInt(lit, 10, 8)
      [] fd.kind = "uint8"   -> ParseUint(lit, 10, 8)
      [] fd.kind = "float64" -> ParseFloat(lit)

\* C2: for every non-required field with a default that is zero at the
\* default gate, Check stores the default parsed for the field's own type
\* and width, and a literal that does not parse or does not fit that width
\* makes Check fail without storing anything.
C2_DefaultParsedForWidth ==
    CheckRan =>
        \A i \in Visits :
            LET e  == last.trace[i]
                fm == VisitMeta(e)
                fd == VisitDecl(e)
                w  == WidthParse(fd, fm.defaultVal)
            IN  ( /\ ~fm.required /\ fm.hasDefault /\ ReachedGate(e)
                  /\ fd.kind \in ScalarKinds \ {"slice"}
                  /\ isZeroValue(fd, e.gate) ) =>
                    IF w.ok
                    THEN e.outcome = "defaulted" /\ e.post = w.v
                    ELSE e.outcome = "default" /\ e.post = e.gate
                         /\ last.err.kind = "default"

\* ------------------------------------------------------------------------
\* C3
\* ------------------------------------------------------------------------

\* C3: for every field with a default whose value is non-zero when Check
\* reaches its default gate, whatever its type and whatever the default
\* literal, the iteration ends without error and leaves the value as it
\* was; a field Check does not recurse into has that value from the caller
\* or from ReadEnv.
C3_DefaultKeepsPresentValue ==
    CheckRan =>
        \A i \in Visits :
            LET e  == last.trace[i]
                fm == VisitMeta(e)
                fd == VisitDecl(e)
            IN  ( /\ fm.hasDefault /\ ReachedGate(e)
                  /\ ~isZeroValue(fd, e.gate) ) =>
                    /\ e.outcome = "ok"
                    /\ e.post = e.gate
                    /\ GetAt(obj, e.path) = e.gate
                    /\ ~fm.isStruct => e.gate = GetAt(last.pre, e.path)

\* An integer field whose default does not parse holds a value that the
\* preceding ReadEnv stored, and Check has kept it.
C3_Witness ==
    /\ CheckAfterBind
    /\ ~IsErr(last.err)
    /\ target = "Probe"
    /\ probe.kind = "int8"
    /\ probe.cfg = Tag(sDefaultEq \o <<"x">>)
    /\ prev.pre["F"] = 0
    /\ obj["F"] = 5

\* ------------------------------------------------------------------------
\* C4
\* ------------------------------------------------------------------------

\* C4: after ReadEnv followed by Check, every field with a default whose key
\* holds a value in the environment equals that value converted to the
\* field's type, and the default is not applied.
C4_ExternalValueWins ==
    CheckAfterBind =>
        \A i \in Visits :
            LET e  == last.trace[i]
                fm == VisitMeta(e)
                fd == VisitDecl(e)
                k  == fd.ms.tag
            IN  ( /\ fm.hasDefault /\ ReachedGate(e)
                  /\ fd.ms.has /\ k \in bound /\ k \in DOMAIN env
                  /\ Decode(fd.kind, env[k]).ok ) =>
                    /\ e.outcome # "defaulted"
                    /\ e.post = Decode(fd.kind, env[k]).v

\* ------------------------------------------------------------------------
\* C5
\* ------------------------------------------------------------------------

\* The nested fields ReadEnv recursed into.
BindEntered(tr) ==
    { tr[i].path : i \in { j \in DOMAIN tr : tr[j].ev = "recurse" } }

\* The nested fields Check recursed into.
CheckEntered ==
    { last.trace[i].path :
        i \in { j \in Visits : VisitMeta(last.trace[j]).isStruct } }

\* The names of the nested fields above a path, outermost first.
Ancestors(path) == Front(path)

\* C5: when ReadEnv and then Check both succeed on a structure, they have
\* recursed into the same nested fields; and a required violation inside a
\* nested structure is returned wrapped with the nested field's name at each
\* level.
C5_SameRecursion ==
    /\ (CheckAfterBind /\ ~IsErr(last.err)) =>
            BindEntered(prev.trace) = CheckEntered
    /\ (CheckRan /\ last.err.kind = "required") =>
            \E i \in Visits :
                /\ last.trace[i].outcome = "required"
                /\ last.err.wraps = Ancestors(last.trace[i].path)

\* ------------------------------------------------------------------------
\* C6
\* ------------------------------------------------------------------------

\* C6: with any number of callers of getOrBuildFieldMeta interleaved on one
\* engine, for any mix of types: the metadata of each type is built and
\* stored at most once; every entry of the cache is the complete list of its
\* type; every call that has returned, by the fast path, by the second
\* lookup or after building, returned that same list; and a step never
\* replaces or removes an entry of the cache.
C6_BuiltOnce ==
    /\ [] ( /\ DOMAIN builds = DOMAIN c.structFields
            /\ \A t \in DOMAIN builds : builds[t] <= 1
            /\ \A t \in DOMAIN c.structFields :
                  c.structFields[t] = BuildFieldMeta(t)
            /\ \A p \in Callers :
                  ret[p].done => ret[p].metas = BuildFieldMeta(rt[p])
            /\ \A p, q \in Callers :
                  (ret[p].done /\ ret[q].done /\ rt[p] = rt[q]) =>
                      ret[p].metas = ret[q].metas )
    /\ [][ \A t \in DOMAIN c.structFields :
              /\ t \in DOMAIN c'.structFields
              /\ c'.structFields[t] = c.structFields[t] ]_vars

\* Two callers asked for the same type at the same time: one built and
\* stored the list, the other found it at the second lookup, and a caller
\* has since had it from the fast path of a repeated call.
C6_Witness ==
    \E p, q \in Callers :
        /\ p # q /\ rt[p] = rt[q]
        /\ ret[p].done /\ ret[p].via = "fast" /\ calls[p] = 2
        /\ ret[q].done /\ ret[q].via = "recheck"
        /\ builds[rt[p]] = 1
        /\ Len(ret[q].metas) = 2

\* ------------------------------------------------------------------------
\* C7
\* ------------------------------------------------------------------------

IsPrefix(p, q) == Len(p) <= Len(q) /\ SubSeq(q, 1, Len(p)) = p

\* The names of the visible fields of a structure type, in declaration order.
VisibleNames(t) ==
    LET IsVisible(fd) == fd.exported
        vis == SelectSeq(FieldsOf(t), IsVisible)
    IN  [i \in 1..Len(vis) |-> vis[i].name]

\* The positions in a ReadEnv trace of the events of one kind at one path.
EventsAt(tr, ev, path) ==
    { i \in DOMAIN tr : tr[i].ev = ev /\ tr[i].path = path }

\* The paths of the ReadEnv invocations that reached their loop.
Invocations(tr) == { tr[i].path : i \in { j \in DOMAIN tr : tr[j].ev = "enter" } }

\* The fields an invocation began to process, in the order it did.
Processed(tr, path) ==
    LET AtLevel(e) == e.ev = "field" /\ Front(e.path) = path
        evs == SelectSeq(tr, AtLevel)
    IN  [i \in 1..Len(evs) |-> Last(evs[i].path)]

\* The position at which the invocation at a path returned.
ReturnOf(tr, path) ==
    IF EventsAt(tr, "fail", path) # {}
    THEN CHOOSE i \in EventsAt(tr, "fail", path) : TRUE
    ELSE CHOOSE i \in EventsAt(tr, "unmarshal", path) : TRUE

\* C7: in every ReadEnv on a structure, each invocation processes the
\* visible fields of its level in declaration order; a nested invocation,
\* its Unmarshal included, runs as one block that ends before the nested
\* field's own key is bound and before any later field is processed; each
\* invocation calls Unmarshal at most once, after every field of its level,
\* and exactly once unless a nested invocation failed; a successful
\* outermost invocation ends with the Unmarshal of the whole structure; and
\* when a nested invocation fails the enclosing level never calls Unmarshal.
C7_BindOrder ==
    BindRan =>
        LET tr == last.trace
        IN  /\ \A p \in Invocations(tr) :
                LET done  == Processed(tr, p)
                    names == VisibleNames(TypeAt(p))
                    us    == EventsAt(tr, "unmarshal", p)
                IN  /\ Len(done) <= Len(names)
                    /\ done = SubSeq(names, 1, Len(done))
                    /\ Cardinality(us) <= 1
                    /\ Cardinality(EventsAt(tr, "enter", p)) = 1
                    /\ \A u \in us :
                          /\ Len(done) = Len(names)
                          /\ \A i \in DOMAIN tr :
                                (Front(tr[i].path) = p
                                 /\ tr[i].ev \in {"field", "recurse", "bind"})
                                    => i < u
                    /\ (us = {}) =>
                          \E i \in DOMAIN tr :
                              tr[i].ev = "fail" /\ Len(tr[i].path) > 0
                              /\ Front(tr[i].path) = p
            /\ \A r \in DOMAIN tr : tr[r].ev = "recurse" =>
                LET q    == tr[r].path
                    back == ReturnOf(tr, q)
                IN  /\ \E i \in DOMAIN tr :
                          tr[i].path = q /\ tr[i].ev \in {"fail", "unmarshal"}
                    /\ r < back
                    /\ \A i \in DOMAIN tr :
                          (r < i /\ i < back) =>
                              /\ IsPrefix(q, tr[i].path)
                              /\ tr[i].path = q =>
                                    tr[i].ev \in {"enter", "unmarshal"}
                    /\ \A i \in DOMAIN tr :
                          ( \/ tr[i].ev = "bind" /\ tr[i].path = q
                            \/ tr[i].ev = "field" /\ Front(tr[i].path) = Front(q)
                                                  /\ i > r )
                              => i > back
            /\ ~IsErr(last.err) =>
                  /\ Len(tr) > 0
                  /\ tr[Len(tr)] = Ev("unmarshal", <<>>, <<>>)
            /\ \A f \in DOMAIN tr :
                  (tr[f].ev = "fail" /\ Len(tr[f].path) > 0) =>
                      EventsAt(tr, "unmarshal", Front(tr[f].path)) = {}

\* ReadEnv succeeded on a structure with a nested structure that has a key
\* of its own: the nested Unmarshal came before the binding of that key and
\* the outer Unmarshal came last.
C7_Witness ==
    /\ BindRan /\ ~IsErr(last.err)
    /\ \E r, u, b \in DOMAIN last.trace :
          /\ last.trace[r].ev = "recurse"
          /\ last.trace[u].ev = "unmarshal"
          /\ last.trace[u].path = last.trace[r].path
          /\ last.trace[b].ev = "bind"
          /\ last.trace[b].path = last.trace[r].path
          /\ r < u /\ u < b
          /\ \E f \in DOMAIN last.trace :
                last.trace[f].ev = "field" /\ f > b /\ Len(last.trace[f].path) = 1

\* ------------------------------------------------------------------------
\* C8
\* ------------------------------------------------------------------------

\* The visible fields at the levels a ReadEnv entered, as <<type, field>>.
EnteredFields(tr) ==
    UNION { { FieldsOf(TypeAt(p))[i] : i \in { j \in DOMAIN FieldsOf(TypeAt(p)) :
                                               FieldsOf(TypeAt(p))[j].exported } } :
            p \in Invocations(tr) }

\* The keys ReadEnv handed to viper.BindEnv.
KeysBound(tr) == { tr[i].key : i \in { j \in DOMAIN tr : tr[j].ev = "bind" } }

\* The binding-tag values that are non-empty and not the sentinel.
KeysDeclared(tr) ==
    { fd.ms.tag : fd \in { g \in EnteredFields(tr) :
                           g.ms.has /\ g.ms.tag # <<>> /\ g.ms.tag # sDash } }

\* C8: after a successful ReadEnv the keys it bound are exactly the binding
\* tags, non-empty and other than "-", of the visible fields at the levels it
\* entered, and the registry maps each such field name to its key.
C8_KeysRegistered ==
    (BindRan /\ ~IsErr(last.err)) =>
        /\ KeysBound(last.trace) = KeysDeclared(last.trace)
        /\ \A fd \in EnteredFields(last.trace) :
              (fd.ms.has /\ fd.ms.tag # <<>> /\ fd.ms.tag # sDash) =>
                  fd.name \in DOMAIN c.msTag
        /\ \A n \in DOMAIN c.msTag : c.msTag[n] # <<>>

\* ------------------------------------------------------------------------
\* C9
\* ------------------------------------------------------------------------

\* The argument shapes that are not a pointer to a structure.
BadShapes == ArgShapes \ {"ptr"}

\* C9: ReadEnv and Check given nothing, a non-pointer, a nil pointer or a
\* pointer to a non-structure return a shape error, never a panic, and leave
\* the structure, the registry, the metadata cache, the bound keys and the
\* environment as they were; a field marked as nested structure that is not
\* a structure makes the outer call return the shape error wrapped with the
\* field's name.
C9_ShapeErrors ==
    /\ [][ last'.shape \in BadShapes =>
              /\ last'.err.kind = "shape"
              /\ obj' = obj /\ c' = c /\ bound' = bound /\ env' = env ]_vars
    /\ [] ( (CheckRan \/ BindRan) =>
              /\ last.err.kind # "panic"
              /\ CheckRan =>
                    \A i \in Visits :
                        (VisitMeta(last.trace[i]).isStruct
                         /\ VisitDecl(last.trace[i]).kind # "struct") =>
                            /\ last.trace[i].outcome = "nested"
                            /\ last.err.kind = "shape"
                            /\ last.err.wraps = last.trace[i].path
              /\ BindRan =>
                    \A i \in DOMAIN last.trace :
                        (last.trace[i].ev = "recurse"
                         /\ DeclAt(target, last.trace[i].path).kind # "struct") =>
                            /\ last.err.kind = "shape"
                            /\ last.err.wraps = last.trace[i].path )

\* After a successful ReadEnv that filled the registry, Check was given a
\* pointer to an integer and returned a shape error.
C9_Witness ==
    /\ last.op = "Check" /\ last.shape = "ptrint"
    /\ last.err.kind = "shape"
    /\ prev.op = "ReadEnv" /\ prev.shape = "ptr"
    /\ bound # {} /\ c.msTag # EmptyMap

\* ------------------------------------------------------------------------
\* C10
\* ------------------------------------------------------------------------

RECURSIVE DepthFirst(_, _)
RECURSIVE DepthFirstFrom(_, _, _, _)

\* The paths Check inspects on a structure of type t when nothing stops it:
\* metadata order, a nested structure's fields before the nested field.
DepthFirst(t, path) == DepthFirstFrom(t, path, BuildFieldMeta(t), 1)

DepthFirstFrom(t, path, metas, i) ==
    IF i > Len(metas) THEN <<>>
    ELSE LET fm    == metas[i]
             fd    == FieldsOf(t)[fm.index]
             fpath == Append(path, fm.name)
             below == IF fm.isStruct /\ fd.kind = "struct"
                      THEN DepthFirst(fd.elem, fpath) ELSE <<>>
         IN  below \o <<fpath>> \o DepthFirstFrom(t, path, metas, i + 1)

RECURSIVE LeafPaths(_, _)

\* The paths of the fields of a structure that are not structures.
LeafPaths(t, path) ==
    UNION { IF FieldsOf(t)[i].kind = "struct"
            THEN LeafPaths(FieldsOf(t)[i].elem, Append(path, FieldsOf(t)[i].name))
            ELSE { Append(path, FieldsOf(t)[i].name) } :
            i \in DOMAIN FieldsOf(t) }

\* The field of an inspection violates a rule at its own gates.
Violates(e) ==
    LET fm   == VisitMeta(e)
        fd   == VisitDecl(e)
        zero == isZeroValue(fd, e.gate)
    IN  \/ fm.isStruct /\ fd.kind # "struct"
        \/ fm.required /\ zero
        \/ zero /\ fm.hasDefault /\ ~setFieldDefault(fd, fm.defaultVal).ok

\* C10: when Check on a structure returns an error, the inspections up to the
\* violating field follow the depth-first metadata order without a gap,
\* none of the earlier ones violates a rule, the error reports that one
\* field, the only inspections after it are the returns through the
\* enclosing nested fields, and the structure differs from what the caller
\* passed only in zero fields before the violating one that took their
\* default.
C10_FailFast ==
    (CheckRan /\ IsErr(last.err)) =>
        LET tr    == last.trace
            order == DepthFirst(target, <<>>)
        IN  \E k \in DOMAIN tr :
              /\ k <= Len(order)
              /\ \A i \in 1..k : tr[i].path = order[i]
              /\ \A i \in 1..(k - 1) :
                    tr[i].outcome \in {"ok", "defaulted"} /\ ~Violates(tr[i])
              /\ Violates(tr[k])
              /\ tr[k].outcome \in {"required", "default", "nested"}
              /\ tr[k].post = tr[k].gate
              /\ last.err.kind =
                    (IF tr[k].outcome = "nested" THEN "shape" ELSE tr[k].outcome)
              /\ last.err.wraps =
                    (IF tr[k].outcome = "nested"
                     THEN tr[k].path ELSE Front(tr[k].path))
              /\ tr[k].outcome # "nested" => last.err.field = Last(tr[k].path)
              /\ Len(tr) = k + Len(Front(tr[k].path))
              /\ \A i \in (k + 1)..Len(tr) :
                    /\ tr[i].outcome = "nested"
                    /\ tr[i].path = Front(tr[i - 1].path)
              /\ \A p \in LeafPaths(target, <<>>) :
                    GetAt(obj, p) # GetAt(last.pre, p) =>
                        \E i \in 1..(k - 1) :
                            /\ tr[i].path = p
                            /\ tr[i].outcome = "defaulted"
                            /\ isZeroValue(VisitDecl(tr[i]), GetAt(last.pre, p))
                            /\ GetAt(obj, p) = tr[i].post

\* Check failed on a required field inside a nested structure after it had
\* applied the default of an earlier field there, and left the later field
\* of the outer structure untouched.
C10_Witness ==
    /\ CheckRan /\ last.err.kind = "required"
    /\ target = "NestProbe"
    /\ last.err.wraps = <<"N">> /\ last.err.field = "B"
    /\ last.pre["N"]["A"] = <<>>
    /\ obj["N"]["A"] = <<"a">>
    /\ obj["Y"] = <<>>

\* ------------------------------------------------------------------------
\* C11
\* ------------------------------------------------------------------------

\* What the rules of a tag say about one field, by the reference reading:
\* the tokens are the comma-separated parts; blanks around a token do not
\* count for recognising it; the value of a default token is everything
\* after its first "=", blanks at either end included.
RefRules(tag) ==
    LET toks == Split(tag, ",")
        IsKeyword(tok, word) == EqualFold(TrimRight(TrimLeft(tok)), word)
        IsDefault(tok) == HasPrefix(TrimLeft(tok), sDefaultEq)
        ValueOf(tok) ==
            SubSeq(TrimLeft(tok), Len(sDefaultEq) + 1, Len(TrimLeft(tok)))
        defaults == { i \in DOMAIN toks :
                        /\ IsDefault(toks[i])
                        /\ ~IsKeyword(toks[i], sStruct)
                        /\ ~IsKeyword(toks[i], sRequired) }
        lastDefault == CHOOSE i \in defaults : \A j \in defaults : j <= i
    IN  [isStruct   |-> \E i \in DOMAIN toks : IsKeyword(toks[i], sStruct),
         required   |-> \E i \in DOMAIN toks : IsKeyword(toks[i], sRequired),
         hasDefault |-> defaults # {},
         defaultVal |-> IF defaults = {} THEN <<>> ELSE ValueOf(toks[lastDefault])]

\* The fields of a type that the reference reading gives an entry, in
\* declaration order, each with its name and rules.
RefMetadata(t) ==
    LET HasEntry(fd) == fd.exported /\ fd.cfg.has /\ fd.cfg.tag # sDash
        kept == SelectSeq(FieldsOf(t), HasEntry)
    IN  [i \in 1..Len(kept) |-> [name |-> kept[i].name] @@ RefRules(kept[i].cfg.tag)]

\* The name and rules of the entries of a cached metadata list.
RulesOf(metas) ==
    [i \in 1..Len(metas) |->
        [name |-> metas[i].name, isStruct |-> metas[i].isStruct,
         required |-> metas[i].required, hasDefault |-> metas[i].hasDefault,
         defaultVal |-> metas[i].defaultVal]]

\* C11: for every rules tag, the metadata that getOrBuildFieldMeta caches
\* for a type agrees with the reference reading of its fields' tags: no
\* entry for an unexported field, a field without rules tag or with the tag
\* "-"; otherwise nested-structure and required set iff some token is that
\* keyword, the default equal to the text after the first "=" of a default
\* token with its blanks kept, no effect of any other token; and Check never
\* fails because of the build.
C11_TagParsing ==
    /\ \A t \in DOMAIN c.structFields :
          RulesOf(c.structFields[t]) = RefMetadata(t)
    /\ CheckRan => TypeAt(<<>>) \in DOMAIN c.structFields

\* ------------------------------------------------------------------------
\* C12
\* ------------------------------------------------------------------------

\* The inputs of the Create that last ran.
CreateArgs == last.trace[1]

\* C12: for the config type given to a Create, String does not fail and
\* names 1 "yaml", 2 "json" and every other value "none", IsValid is true
\* exactly for 1 and 2, and Create does not fail because of the type: an
\* unknown type leaves the engine with YAML.
C12_ConfigTypeTotal ==
    last.op = "Create" =>
        LET ct == CreateArgs.cfgType IN
        /\ String(ct).ok
        /\ String(ct).str = (CASE ct = ConfigTypeYAML -> sYaml
                               [] ct = ConfigTypeJSON -> sJson
                               [] OTHER -> sNone)
        /\ IsValid(ct).ok
        /\ IsValid(ct).v = (ct \in {ConfigTypeYAML, ConfigTypeJSON})
        /\ last.err.kind # "panic"
        /\ ~IsErr(last.err) =>
              c.cfgType = (IF ct \in {ConfigTypeYAML, ConfigTypeJSON}
                           THEN ct ELSE ConfigTypeYAML)
        /\ ( /\ Len(CreateArgs.project) > 0
             /\ Len(CreateArgs.baseCfgName) > 0
             /\ CreateArgs.fs = "ok" ) => ~IsErr(last.err)

\* ------------------------------------------------------------------------
\* C13
\* ------------------------------------------------------------------------

\* A Check of a pointer to the structure succeeded, and the step is the next
\* Check of a pointer to the same structure.
RepeatedCheck ==
    /\ CheckRan
    /\ ~IsErr(last.err)
    /\ last'.op = "Check"
    /\ last'.shape = "ptr"
    /\ last'.pre = obj

\* C13: a Check that immediately follows a successful Check of the same
\* structure succeeds too, changes no field at any nesting level, and leaves
\* the engine, its metadata cache included, as it was.
C13_CheckIdempotent ==
    [][RepeatedCheck => /\ ~IsErr(last'.err)
                        /\ obj' = obj
                        /\ c' = c]_vars

\* Two Checks in a row succeeded on a bool field with default=false, and the
\* second one applied the default again to the field that was still zero.
C13_Witness ==
    /\ CheckRan
    /\ ~IsErr(last.err)
    /\ prev.op = "Check"
    /\ prev.shape = "ptr"
    /\ ~IsErr(prev.err)
    /\ target = "Probe"
    /\ probe.kind = "bool"
    /\ probe.cfg = Tag(sDefaultEq \o sFalse)
    /\ \E k \in 1..Len(last.trace) :
          /\ last.trace[k].outcome = "defaulted"
          /\ last.trace[k].pre = FALSE
          /\ last.trace[k].post = FALSE
    /\ obj = last.pre

====
